---------------------------- MODULE Spec2Model ----------------------------
(***************************************************************************)
(* Model of the conversational session cache of backend/app.py:            *)
(* POST /api/chat/send (chat_gemini), GET /api/chat/list                   *)
(* (chat_history_list) and POST /api/summarize (summarize), together with  *)
(* the cookie-backed visitor session, the redis cache with its rolling     *)
(* expiry and the chat backend.                                            *)
(*                                                                         *)
(* Text is a sequence of chunks (a string is the concatenation of its      *)
(* chunks); bytes are a sequence of framing tokens and chunks.             *)
(***************************************************************************)
EXTENDS Integers, Sequences, FiniteSets, TLC

\* ------------------------------------------------------------------ bounds
MaxTokens == 3          \* tokens the chat backend mints in one behaviour
MaxTurns  == 4          \* turns kept in one conversation history

\* --------------------------------------------------------------- constants
HOUR_TIMEDELTA == 60    \* timedelta(hours=1), in minutes

Visitors  == {"v1", "v2"}
Solo      == {"v1"}
Tokens    == 1..MaxTokens
NoChatID  == 0                          \* "chatID" not in session
Durations == {30}                       \* minutes that pass in one step
Messages  == {"hi", "and then?"}
Replies   == {<<"pong">>, <<"a", "b">>} \* parts of the model's answer
Urls      == {"http://x"}
Roles     == {"user", "model"}
None      == "<None>"

GetModes  == {"ok", "decode_error", "fail"}
ChatModes == {"reply", "declined", "error"}
SetModes  == {"ok", "fail"}
\* what send_message does: decline, fail, or answer with some parts
ChatOutcomes ==
  {[mode |-> "declined", reply |-> <<>>], [mode |-> "error", reply |-> <<>>]}
    \cup {[mode |-> "reply", reply |-> r] : r \in Replies}

\* ------------------------------------------------------------ request body
\* request.get_json(): None, or a dict (a function from keys to strings)
NoJson    == [isNone |-> TRUE,  keys |-> {},          message |-> None, url |-> None]
EmptyDict == [isNone |-> FALSE, keys |-> {},          message |-> None, url |-> None]
MsgBody(m) == [isNone |-> FALSE, keys |-> {"message"}, message |-> m,    url |-> None]
UrlBody(u) == [isNone |-> FALSE, keys |-> {"url"},     message |-> None, url |-> u]

Bodies ==
  {NoJson, EmptyDict} \cup {MsgBody(m) : m \in Messages \cup {""}}
                      \cup {UrlBody(u) : u \in Urls \cup {""}}

\* `not rjson`: None and the empty dict are falsy
FalsyJson(rjson) == rjson.isNone \/ rjson.keys = {}

\* rjson.get(key)
JsonGet(rjson, key) ==
  IF key \notin rjson.keys THEN None
  ELSE IF key = "message" THEN rjson.message ELSE rjson.url

\* `not s` for an optional string
FalsyStr(s) == s = None \/ s = ""

\* --------------------------------------------------------------- responses
Resp(status, key, text, items) ==
  [status |-> status, key |-> key, text |-> text, items |-> items]

NoResp          == Resp(0, "", <<>>, <<>>)
ExpiredResp     == Resp(200, "message",
                     <<"Your session has expired. Please try again later.">>, <<>>)
DeclinedResp    == Resp(200, "message", <<"I cannot answer that.">>, <<>>)
OutOfServiceResp == Resp(200, "message",
   <<"It seems we're out of service at the moment, try again later.">>, <<>>)
SummarizeErrorResp == Resp(200, "error",
   <<"an internal server error occured, try again later">>, <<>>)
ReplyResp(text)   == Resp(200, "message", text, <<>>)
SummaryResp(text) == Resp(200, "summary", text, <<>>)
ListResp(items)   == Resp(200, "list", <<>>, items)
\* an exception that leaves the view function: the framework's error page
UnhandledResp(exc) == Resp(500, "exception", <<exc>>, <<>>)

\* ----------------------------------------------------------- history codec
Turn(role, parts) == [role |-> role, parts |-> parts]

\* the frames of the turns of h, one after the other
Flatten(h) ==
  LET F[i \in 0..Len(h)] ==
        IF i = 0 THEN <<>>
        ELSE F[i - 1] \o <<h[i].role, "(">> \o h[i].parts \o <<")">>
  IN F[Len(h)]

\* pickle.dumps(chat.history)
dumps(h) == <<"PROTO">> \o Flatten(h) \o <<"STOP">>

Malformed == [ok |-> FALSE, h |-> <<>>]

\* index of the first ")" of b at or after i, 0 when there is none
CloseAt(b, i) ==
  IF \E j \in i..Len(b) : b[j] = ")"
  THEN CHOOSE j \in i..Len(b) :
         b[j] = ")" /\ \A k \in i..(j - 1) : b[k] # ")"
  ELSE 0

\* the turns framed in b from position 2 up to its last position
ParseTurns(b) ==
  LET n == Len(b)
      P[i \in 2..n] ==
        IF i = n THEN [ok |-> TRUE, h |-> <<>>]
        ELSE IF i + 1 >= n \/ b[i] \notin Roles \/ b[i + 1] # "("
        THEN Malformed
        ELSE LET c == CloseAt(b, i + 2) IN
             IF c = 0 \/ c >= n THEN Malformed
             ELSE IF ~P[c + 1].ok THEN Malformed
             ELSE [ok |-> TRUE,
                   h  |-> <<Turn(b[i], SubSeq(b, i + 2, c - 1))>> \o P[c + 1].h]
  IN P[2]

\* a loads that answers an empty history where pickle.loads raises
loads_lenient(b) ==
  IF Len(b) < 2 \/ b[1] # "PROTO" \/ b[Len(b)] # "STOP"
  THEN [ok |-> TRUE, h |-> <<>>]
  ELSE IF ParseTurns(b).ok THEN ParseTurns(b) ELSE [ok |-> TRUE, h |-> <<>>]

\* pickle.loads(pickled_chat_history); ok = FALSE when it raises
loads(b) ==
  IF Len(b) < 2 \/ b[1] # "PROTO" \/ b[Len(b)] # "STOP"
  THEN Malformed
  ELSE ParseTurns(b)

\* " ".join([p.text for p in message.parts])
RECURSIVE Join(_)
Join(parts) ==
  IF parts = <<>> THEN <<>>
  ELSE IF Len(parts) = 1 THEN <<parts[1]>>
  ELSE <<parts[1], " ">> \o Join(Tail(parts))

\* ------------------------------------------------------------------- cache
NoEntry == [present |-> FALSE, val |-> <<>>, ttl |-> 0]
Entry(val, ttl) == [present |-> TRUE, val |-> val, ttl |-> ttl]

\* stored bytes that are no pickled history
Garbage == {<<>>, <<"junk">>, <<"PROTO", "user", "(", "hi">>}


\* a write that keeps the expiry of an entry that exists (SET ... KEEPTTL)
setex_keepttl(cch, key, ttl, val) ==
  [cch EXCEPT ![key] = Entry(val, IF cch[key].present THEN cch[key].ttl ELSE ttl)]

\* redis_client.setex(chatID, HOUR_TIMEDELTA, bytes): overwrite, reset expiry
setex(cch, key, ttl, val) == [cch EXCEPT ![key] = Entry(val, ttl)]

\* redis_client.get(chatID) with the UnicodeDecodeError fallback:
\* the raw payload carried by the error stands for the value
\* a read that takes a decoding error for a miss and drops its payload
Fetch_drop(cch, key, getMode) ==
  IF getMode = "fail"
  THEN [exc |-> "ConnectionError", some |-> FALSE, bytes |-> <<>>]
  ELSE IF getMode = "decode_error"
  THEN [exc |-> "none", some |-> FALSE, bytes |-> <<>>]
  ELSE [exc |-> "none", some |-> cch[key].present, bytes |-> cch[key].val]

Fetch(cch, key, getMode) ==
  IF getMode = "fail"
  THEN [exc |-> "ConnectionError", some |-> FALSE, bytes |-> <<>>]
  ELSE [exc |-> "none", some |-> cch[key].present, bytes |-> cch[key].val]

\* a test that takes only empty bytes, not None, for a miss
FalsyBytes_emptyOnly(f) == f.some /\ f.bytes = <<>>

\* `not pickled_chat_history`: None and empty bytes are falsy
FalsyBytes(f) == ~f.some \/ f.bytes = <<>>

\* ------------------------------------------------------------ chat backend
\* create_chat(history) -> (chatID, chat); the token is the next unused one
create_chat(next, history) == [chatID |-> next, history |-> history]

\* chat.send_message(query).text and the chat.history it leaves
send_message(history, query, chatMode, reply) ==
  IF chatMode = "declined"
  THEN [exc |-> "StopCandidateException", text |-> <<>>, history |-> history]
  ELSE IF chatMode = "error"
  THEN [exc |-> "Exception", text |-> <<>>, history |-> history]
  ELSE [exc |-> "none", text |-> reply,
        history |-> history \o <<Turn("user", <<query>>), Turn("model", reply)>>]

\* ------------------------------------------------------- POST /api/chat/send
\* outcome of the try block: a return value or a raised exception, with the
\* session's chatID and the cache as the block leaves them
Outcome(exc, ret, chatID, cch, calls, minted) ==
  [exc |-> exc, ret |-> ret, chatID |-> chatID, cache |-> cch,
   calls |-> calls, minted |-> minted]

\* a resume that takes over the token create_chat(history) returned
resume_chat_rekey(chatID, created) ==
  [chatID |-> created.chatID, history |-> created.history]

\* `_, chat = create_chat(chat_history)`: the session's chatID stays in use
resume_chat(chatID, created) == [chatID |-> chatID, history |-> created.history]

\* a start that keys every conversation with one fixed token
new_chat_stale(created) == [chatID |-> 1, history |-> created.history]

\* `chatID, chat = create_chat()`
new_chat(created) == [chatID |-> created.chatID, history |-> created.history]

\* a send that appends its exchange to the history the cache holds when it
\* writes, instead of the history it loaded when it started
converse_merge(sessID, cch, chat, query, chatMode, reply, setMode, calls) ==
  LET held == IF cch[chat.chatID].present /\ loads(cch[chat.chatID].val).ok
              THEN loads(cch[chat.chatID].val).h ELSE chat.history
      sent == send_message(held, query, chatMode, reply) IN
  IF sent.exc # "none"
  THEN Outcome(sent.exc, NoResp, sessID, cch, calls \o <<"send_message">>, 1)
  ELSE IF setMode = "fail"
  THEN Outcome("ConnectionError", NoResp, chat.chatID, cch,
               calls \o <<"send_message", "setex">>, 1)
  ELSE Outcome("none", ReplyResp(sent.text), chat.chatID,
               setex(cch, chat.chatID, HOUR_TIMEDELTA, dumps(sent.history)),
               calls \o <<"send_message", "setex">>, 1)

\* a send that persists the history it holds before it asks the backend
converse_eager(sessID, cch, chat, query, chatMode, reply, setMode, calls) ==
  LET sent == send_message(chat.history, query, chatMode, reply)
      early == setex(cch, chat.chatID, HOUR_TIMEDELTA, dumps(chat.history)) IN
  IF sent.exc # "none"
  THEN Outcome(sent.exc, NoResp, sessID, early, calls \o <<"send_message">>, 1)
  ELSE IF setMode = "fail"
  THEN Outcome("ConnectionError", NoResp, chat.chatID, early,
               calls \o <<"send_message", "setex">>, 1)
  ELSE Outcome("none", ReplyResp(sent.text), chat.chatID,
               setex(cch, chat.chatID, HOUR_TIMEDELTA, dumps(sent.history)),
               calls \o <<"send_message", "setex">>, 1)

\* send the message, bind the token, persist the history
converse(sessID, cch, chat, query, chatMode, reply, setMode, calls) ==
  LET sent == send_message(chat.history, query, chatMode, reply) IN
  IF sent.exc # "none"
  THEN Outcome(sent.exc, NoResp, sessID, cch, calls \o <<"send_message">>, 1)
  ELSE IF setMode = "fail"
  THEN Outcome("ConnectionError", NoResp, chat.chatID, cch,
               calls \o <<"send_message", "setex">>, 1)
  ELSE Outcome("none", ReplyResp(sent.text), chat.chatID,
               setex(cch, chat.chatID, HOUR_TIMEDELTA, dumps(sent.history)),
               calls \o <<"send_message", "setex">>, 1)

\* the try block of chat_gemini
chat_gemini_try(sessID, cch, next, rjson, getMode, chatMode, reply, setMode) ==
  IF FalsyJson(rjson)
  THEN Outcome("415", NoResp, sessID, cch, <<>>, 0)
  ELSE LET query == JsonGet(rjson, "message") IN
  IF FalsyStr(query)
  THEN Outcome("400", NoResp, sessID, cch, <<>>, 0)
  ELSE IF sessID # NoChatID
  THEN LET f == Fetch(cch, sessID, getMode) IN
       IF f.exc # "none"
       THEN Outcome(f.exc, NoResp, sessID, cch, <<"get">>, 0)
       ELSE IF FalsyBytes(f)
       THEN Outcome("none", ExpiredResp, sessID, cch, <<"get">>, 0)
       ELSE LET d == loads(f.bytes) IN
            IF ~d.ok
            THEN Outcome("UnpicklingError", NoResp, sessID, cch, <<"get">>, 0)
            ELSE converse(sessID, cch,
                          resume_chat(sessID, create_chat(next, d.h)),
                          query, chatMode, reply, setMode,
                          <<"get", "create_chat">>)
  ELSE converse(sessID, cch, new_chat(create_chat(next, <<>>)),
                query, chatMode, reply, setMode, <<"create_chat">>)

\* one except clause for every exception
chat_gemini_except_generic(exc) == OutOfServiceResp

\* the except clauses of chat_gemini
chat_gemini_except(exc) ==
  IF exc = "StopCandidateException" THEN DeclinedResp ELSE OutOfServiceResp

chat_gemini(sessID, cch, next, rjson, getMode, chatMode, reply, setMode) ==
  LET o == chat_gemini_try(sessID, cch, next, rjson, getMode, chatMode,
                           reply, setMode) IN
  IF o.exc = "none" THEN o
  ELSE [o EXCEPT !.ret = chat_gemini_except(o.exc)]

\* -------------------------------------------------------- GET /api/chat/list
\* a listing that glues the parts of a turn together with no separator
Render_nosep(message) == [role |-> message.role, content |-> message.parts]

Render(message) == [role |-> message.role, content |-> Join(message.parts)]

\* a list whose read of a cache hit also resets the entry's expiry (GETEX)
chat_history_list_touch(sessID, cch, getMode) ==
  IF sessID # NoChatID
  THEN LET f == Fetch(cch, sessID, getMode) IN
       IF f.exc # "none"
       THEN Outcome(f.exc, UnhandledResp(f.exc), sessID, cch, <<"get">>, 0)
       ELSE IF FalsyBytes(f)
       THEN Outcome("none", ListResp(<<>>), sessID, cch, <<"get">>, 0)
       ELSE LET d == loads(f.bytes)
                cch2 == [cch EXCEPT ![sessID].ttl = HOUR_TIMEDELTA] IN
            IF ~d.ok
            THEN Outcome("UnpicklingError", UnhandledResp("UnpicklingError"),
                         sessID, cch2, <<"get">>, 0)
            ELSE Outcome("none",
                         ListResp([i \in 1..Len(d.h) |-> Render(d.h[i])]),
                         sessID, cch2, <<"get">>, 0)
  ELSE Outcome("none", ListResp(<<>>), sessID, cch, <<>>, 0)

\* a list that drops the chatID of a session whose entry is gone
chat_history_list_forget(sessID, cch, getMode) ==
  IF sessID # NoChatID
  THEN LET f == Fetch(cch, sessID, getMode) IN
       IF f.exc # "none"
       THEN Outcome(f.exc, UnhandledResp(f.exc), sessID, cch, <<"get">>, 0)
       ELSE IF FalsyBytes(f)
       THEN Outcome("none", ListResp(<<>>), NoChatID, cch, <<"get">>, 0)
       ELSE LET d == loads(f.bytes) IN
            IF ~d.ok
            THEN Outcome("UnpicklingError", UnhandledResp("UnpicklingError"),
                         sessID, cch, <<"get">>, 0)
            ELSE Outcome("none",
                         ListResp([i \in 1..Len(d.h) |-> Render(d.h[i])]),
                         sessID, cch, <<"get">>, 0)
  ELSE Outcome("none", ListResp(<<>>), sessID, cch, <<>>, 0)

chat_history_list(sessID, cch, getMode) ==
  IF sessID # NoChatID
  THEN LET f == Fetch(cch, sessID, getMode) IN
       IF f.exc # "none"
       THEN Outcome(f.exc, UnhandledResp(f.exc), sessID, cch, <<"get">>, 0)
       ELSE IF FalsyBytes(f)
       THEN Outcome("none", ListResp(<<>>), sessID, cch, <<"get">>, 0)
       ELSE LET d == loads(f.bytes) IN
            IF ~d.ok
            THEN Outcome("UnpicklingError", UnhandledResp("UnpicklingError"),
                         sessID, cch, <<"get">>, 0)
            ELSE Outcome("none",
                         ListResp([i \in 1..Len(d.h) |-> Render(d.h[i])]),
                         sessID, cch, <<"get">>, 0)
  ELSE Outcome("none", ListResp(<<>>), sessID, cch, <<>>, 0)

\* ------------------------------------------------------- POST /api/summarize
SummaryQuery(url) == "Please summarize this URL in 50 words: " \o url

\* a summarize that keeps its conversation: binds and persists it like a send
summarize_try_keep(sessID, cch, next, rjson, chatMode, reply) ==
  IF FalsyJson(rjson)
  THEN Outcome("415", NoResp, sessID, cch, <<>>, 0)
  ELSE LET url == JsonGet(rjson, "url") IN
  IF FalsyStr(url)
  THEN Outcome("400", NoResp, sessID, cch, <<>>, 0)
  ELSE LET chat == create_chat(next, <<>>)
           sent == send_message(chat.history, SummaryQuery(url), chatMode, reply)
       IN IF sent.exc # "none"
          THEN Outcome(sent.exc, NoResp, sessID, cch,
                       <<"create_chat", "send_message">>, 1)
          ELSE Outcome("none", SummaryResp(sent.text), chat.chatID,
                       setex(cch, chat.chatID, HOUR_TIMEDELTA,
                             dumps(sent.history)),
                       <<"create_chat", "send_message">>, 1)

summarize_try(sessID, cch, next, rjson, chatMode, reply) ==
  IF FalsyJson(rjson)
  THEN Outcome("415", NoResp, sessID, cch, <<>>, 0)
  ELSE LET url == JsonGet(rjson, "url") IN
  IF FalsyStr(url)
  THEN Outcome("400", NoResp, sessID, cch, <<>>, 0)
  ELSE LET chat == create_chat(next, <<>>)
           sent == send_message(chat.history, SummaryQuery(url), chatMode, reply)
       IN IF sent.exc # "none"
          THEN Outcome(sent.exc, NoResp, sessID, cch,
                       <<"create_chat", "send_message">>, 1)
          ELSE Outcome("none", SummaryResp(sent.text), sessID, cch,
                       <<"create_chat", "send_message">>, 1)

summarize(sessID, cch, next, rjson, chatMode, reply) ==
  LET o == summarize_try(sessID, cch, next, rjson, chatMode, reply) IN
  IF o.exc = "none" THEN o ELSE [o EXCEPT !.ret = SummarizeErrorResp]


\* ------------------------------------------------------------------- state
VARIABLES
  session,     \* visitor -> the chatID in the visitor's session cookie
  cookieLife,  \* visitor -> minutes the session cookie stays valid
  cache,       \* token -> cache entry (value and remaining expiry)
  nextToken,   \* the token the next create_chat returns
  seen,        \* tokens ever bound to a session or used as a cache key
  last,        \* the latest step: the request, its response, its calls
  prevList,    \* visitor -> output of the latest list since the last send
  conv,        \* visitor -> the running conversation: its token, the number
               \* of exchanges answered so far and their rendered turns
  bound,       \* token -> the visitors whose session ever held it
  conn,        \* the cache connection of redis_client: open or released
  clock,       \* wall clock, in quarters of a second
  limit,       \* visitor -> when the rate-limit window of the send ends
  flight       \* request -> a send that runs interleaved with another

vars == <<session, cookieLife, cache, nextToken, seen, last, prevList,
          conv, bound, conn, clock, limit, flight>>

Called(calls, name) == \E i \in 1..Len(calls) : calls[i] = name

\* the record of a request: its body, the behaviour of each collaborator it
\* called ("" for one it did not call), its response and its calls
Step(op, v, rjson, get, chat, set, o, created) ==
  [op |-> op, v |-> v, rjson |-> rjson,
   get  |-> IF Called(o.calls, "get") THEN get ELSE "",
   chat |-> IF Called(o.calls, "send_message") THEN chat ELSE "",
   set  |-> IF Called(o.calls, "setex") THEN set ELSE "",
   resp |-> o.ret, exc |-> o.exc, calls |-> o.calls, created |-> created,
   conn |-> conn, retry |-> 0]

Quiet(op) ==
  [op |-> op, v |-> "", rjson |-> NoJson, get |-> "", chat |-> "", set |-> "",
   resp |-> NoResp, exc |-> "none", calls |-> <<>>, created |-> 0,
   conn |-> "", retry |-> 0]

NoPrev == [has |-> FALSE, out |-> NoResp, stable |-> FALSE, twice |-> FALSE]

\* what a fetch of the entry of v's session would see
Stored(sess, cch, v) ==
  IF sess[v] = NoChatID THEN <<"no chatID">>
  ELSE IF cch[sess[v]].present THEN <<"value">> \o cch[sess[v]].val
  ELSE <<"absent">>

\* a step that is no request of v: did it leave what v's listing reads alone
Undisturbed(v, sess2, cch2) ==
  /\ sess2[v] = session[v]
  /\ Stored(sess2, cch2, v) = Stored(session, cache, v)

KeepPrev(sess2, cch2) ==
  [v \in Visitors |->
     [prevList[v] EXCEPT !.stable = @ /\ Undisturbed(v, sess2, cch2)]]

\* apis.cache: redis_conn() hands out an open connection, redis_close()
\* releases it
redis_conn == "open"
redis_close(c) == "released"

\* `redis_client = redis_conn()`, once, when the module is loaded
redis_client == redis_conn

NoConv == [id |-> NoChatID, k |-> 0, turns |-> <<>>]

\* the text of a reply as the list shows it: its parts, a space between two
Spaced(parts) ==
  [i \in 1..(2 * Len(parts) - 1) |->
     IF i % 2 = 1 THEN parts[(i + 1) \div 2] ELSE " "]

\* the two turns an answered message adds to the listing
Exchange(query, reply) ==
  <<[role |-> "user", content |-> <<query>>],
    [role |-> "model", content |-> Spaced(reply)]>>

\* the running conversation of v after a send of v with outcome o
ConvAfterSend(v, o, query, reply) ==
  IF o.exc # "none" \/ o.ret = ExpiredResp THEN conv[v]
  ELSE IF session[v] = NoChatID
  THEN [id |-> o.chatID, k |-> 1, turns |-> Exchange(query, reply)]
  ELSE IF conv[v].k = 0 THEN NoConv
  ELSE [conv[v] EXCEPT !.k = @ + 1, !.turns = @ \o Exchange(query, reply)]

\* a conversation stops running when its entry or its session is gone
ConvKept(sess2, cch2) ==
  [v \in Visitors |->
     IF sess2[v] = conv[v].id /\ sess2[v] # NoChatID /\ cch2[sess2[v]].present
        /\ cch2[sess2[v]].val = cache[sess2[v]].val
     THEN conv[v] ELSE NoConv]

Bound(sess2) ==
  [t \in Tokens |-> bound[t] \cup {v \in Visitors : sess2[v] = t}]

Reqs == {"r1", "r2"}
Idle == [pc |-> "idle", v |-> "", sessID |-> NoChatID, query |-> "",
         base |-> <<>>, created |-> 0, reply |-> <<>>]

\* the variables of the rate limiter and of interleaved sends
limiterVars == <<clock, limit>>

Init ==
  /\ session = [v \in Visitors |-> NoChatID]
  /\ cookieLife = [v \in Visitors |-> 0]
  /\ cache = [t \in Tokens |-> NoEntry]
  /\ nextToken = 1
  /\ seen = {}
  /\ last = Quiet("init")
  /\ prevList = [v \in Visitors |-> NoPrev]
  /\ conv = [v \in Visitors |-> NoConv]
  /\ bound = [t \in Tokens |-> {}]
  /\ conn = redis_client
  /\ clock = 0
  /\ limit = [v \in Visitors |-> 0]
  /\ flight = [r \in Reqs |-> Idle]

\* teardown_appcontext: redis_close() after every request
teardown_redis(c) == redis_close(c)

\* before_request: the session cookie is made permanent, its lifetime reset
make_session_permanent(life, v) == [life EXCEPT ![v] = HOUR_TIMEDELTA]

Written(cch2, cch1) == {t \in Tokens : cch2[t] # cch1[t]}

\* tokens bound to a session or used as cache keys
Seen(sess, cch) ==
  ({sess[v] : v \in Visitors} \ {NoChatID}) \cup {t \in Tokens : cch[t].present}

\* the request once the rate limiter has admitted it
Admitted(v, rjson, getMode, chatMode, reply, setMode) ==
  /\ nextToken <= MaxTokens
  /\ \E o \in {chat_gemini(session[v], cache, nextToken, rjson, getMode,
                           chatMode, reply, setMode)} :
     \E sess2 \in {[session EXCEPT ![v] = o.chatID]} :
        /\ \A t \in Written(o.cache, cache) :
              Len(loads(o.cache[t].val).h) <= MaxTurns
        /\ session' = sess2
        /\ cache' = o.cache
        /\ nextToken' = nextToken + o.minted
        /\ cookieLife' = make_session_permanent(cookieLife, v)
        /\ seen' = seen \cup Seen(sess2, o.cache)
        /\ last' = Step("send", v, rjson, getMode, chatMode, setMode, o,
                        IF o.minted = 1 THEN nextToken ELSE 0)
        /\ prevList' = [prevList EXCEPT ![v] = NoPrev]
        /\ conv' = [conv EXCEPT
                      ![v] = ConvAfterSend(v, o, rjson.message, reply)]
        /\ bound' = Bound(sess2)
        /\ conn' = teardown_redis(conn)
        /\ UNCHANGED flight

ChatSend(v, rjson, getMode, chatMode, reply, setMode) ==
  /\ Admitted(v, rjson, getMode, chatMode, reply, setMode)
  /\ UNCHANGED limiterVars

ChatList(v, getMode) ==
  \E o \in {chat_history_list(session[v], cache, getMode)} :
  \E sess2 \in {[session EXCEPT ![v] = o.chatID]} :
     /\ session' = sess2
     /\ cache' = o.cache
     /\ cookieLife' = make_session_permanent(cookieLife, v)
     /\ seen' = seen \cup Seen(sess2, o.cache)
     /\ last' = Step("list", v, NoJson, getMode, "", "", o, 0)
     /\ prevList' = [prevList EXCEPT
          ![v] = [has |-> TRUE, out |-> o.ret, stable |-> TRUE,
                  twice |-> prevList[v].has /\ prevList[v].stable]]
     /\ bound' = Bound(sess2)
     /\ conn' = teardown_redis(conn)
     /\ UNCHANGED <<nextToken, conv, limiterVars, flight>>

Summarize(v, rjson, chatMode, reply) ==
  /\ nextToken <= MaxTokens
  /\ \E o \in {summarize(session[v], cache, nextToken, rjson, chatMode,
                         reply)} :
     \E sess2 \in {[session EXCEPT ![v] = o.chatID]} :
        /\ session' = sess2
        /\ cache' = o.cache
        /\ nextToken' = nextToken + o.minted
        /\ cookieLife' = make_session_permanent(cookieLife, v)
        /\ seen' = seen \cup Seen(sess2, o.cache)
        /\ last' = Step("summarize", v, rjson, "", chatMode, "", o,
                        IF o.minted = 1 THEN nextToken ELSE 0)
        /\ prevList' = KeepPrev(sess2, o.cache)
        /\ bound' = Bound(sess2)
        /\ conn' = teardown_redis(conn)
        /\ UNCHANGED <<conv, limiterVars, flight>>

\* d minutes pass: cache entries and session cookies run towards expiry
Tick(d) ==
  LET cch2  == [t \in Tokens |->
                  IF cache[t].present /\ cache[t].ttl > d
                  THEN [cache[t] EXCEPT !.ttl = @ - d] ELSE NoEntry]
      life2 == [v \in Visitors |->
                  IF cookieLife[v] > d THEN cookieLife[v] - d ELSE 0]
      sess2 == [v \in Visitors |->
                  IF life2[v] = 0 THEN NoChatID ELSE session[v]]
  IN /\ \E v \in Visitors : cookieLife[v] > 0
     /\ cache' = cch2
     /\ cookieLife' = life2
     /\ session' = sess2
     /\ last' = Quiet("tick")
     /\ prevList' = KeepPrev(sess2, cch2)
     /\ conv' = ConvKept(sess2, cch2)
     /\ UNCHANGED <<nextToken, seen, bound, conn, limiterVars, flight>>

\* another writer of the shared store leaves bytes that are no pickled
\* history under a key; v's listings before and after it are not compared
Corrupt(t, g) ==
  /\ cache[t].present
  /\ cache[t].val # g
  /\ cache' = [cache EXCEPT ![t].val = g]
  /\ last' = Quiet("corrupt")
  /\ prevList' = [v \in Visitors |->
                    IF session[v] = t THEN NoPrev ELSE prevList[v]]
  /\ conv' = ConvKept(session, [cache EXCEPT ![t].val = g])
  /\ UNCHANGED <<session, cookieLife, nextToken, seen, bound, conn,
                 limiterVars, flight>>

\* the requests of the visitors in V
Requests(V) ==
  \/ \E v \in V, rjson \in Bodies, getMode \in GetModes,
        c \in ChatOutcomes, setMode \in SetModes :
        ChatSend(v, rjson, getMode, c.mode, c.reply, setMode)
  \/ \E v \in V, getMode \in GetModes : ChatList(v, getMode)
  \/ \E v \in V, rjson \in Bodies, c \in ChatOutcomes :
        Summarize(v, rjson, c.mode, c.reply)

Environment ==
  \/ \E d \in Durations : Tick(d)
  \/ \E t \in Tokens, g \in Garbage : Corrupt(t, g)

\* one visitor's requests, one after the other
Next == Requests(Solo) \/ Environment

Spec == Init /\ [][Next]_vars

TypeOK ==
  /\ session \in [Visitors -> Tokens \cup {NoChatID}]
  /\ cookieLife \in [Visitors -> 0..HOUR_TIMEDELTA]
  /\ nextToken \in 1..(MaxTokens + 1)
  /\ seen \subseteq Tokens
  /\ \A t \in Tokens : cache[t].ttl \in 0..HOUR_TIMEDELTA


\* ---------------------------------------------- rate-limited specification
\* the clock counts quarters of a second; "1/4second" is a window of 4 s
TicksPerSecond == 4
Window == 4 * TicksPerSecond
MaxClock == 18
SecondsPerDay == 86400

RateLimitResp ==
  Resp(429, "error", <<"rate limit exceeded, please try again after ",
                       "{delta}", " seconds">>, <<>>)

\* fixed window of one hit: a send is let through when no window is open
LimitOpen(v) == clock < limit[v]

\* limiter.current_limit.reset_at: the end of the window, truncated to a
\* whole second, plus one second
reset_at(v) == ((limit[v] \div TicksPerSecond) + 1) * TicksPerSecond

\* timedelta.seconds: the whole seconds of a difference within its day
seconds(ticks) ==
  (ticks % (SecondsPerDay * TicksPerSecond)) \div TicksPerSecond

\* ratelimit_handler: delta = (reset - now).seconds
ratelimit_handler(v) == seconds(reset_at(v) - clock)

\* a send that arrives when no window is open runs and opens one
LimitedSend(v, rjson, getMode, chatMode, reply, setMode) ==
  /\ ~LimitOpen(v)
  /\ Admitted(v, rjson, getMode, chatMode, reply, setMode)
  /\ limit' = [limit EXCEPT ![v] = clock + Window]
  /\ UNCHANGED clock

\* a send that arrives while the window is open never reaches the handler
RejectedSend(v) ==
  /\ LimitOpen(v)
  /\ last' = [Quiet("send") EXCEPT !.v = v, !.resp = RateLimitResp,
                                   !.exc = "429", !.conn = conn,
                                   !.retry = ratelimit_handler(v)]
  /\ conn' = teardown_redis(conn)
  /\ UNCHANGED <<session, cookieLife, cache, nextToken, seen, prevList, conv,
                 bound, limiterVars, flight>>

\* a quarter of a second passes
Advance ==
  /\ clock < MaxClock
  /\ clock' = clock + 1
  /\ last' = Quiet("advance")
  /\ UNCHANGED <<session, cookieLife, cache, nextToken, seen, prevList,
                 conv, bound, conn, limit, flight>>

LimitNext ==
  \/ \E v \in Solo, rjson \in Bodies, getMode \in GetModes,
        c \in ChatOutcomes, setMode \in SetModes :
        LimitedSend(v, rjson, getMode, c.mode, c.reply, setMode)
  \/ \E v \in Solo : RejectedSend(v)
  \/ Advance

SpecLimit == Init /\ [][LimitNext]_vars


\* ------------------------------------------------ concurrent specification
\* two sends of one browser run on two worker threads; each is split where
\* the handler waits for the chat backend (line 155)

\* a first, undisturbed send opens the conversation
Opening(v, m, reply) ==
  /\ \A r \in Reqs : flight[r].pc = "idle"
  /\ session[v] = NoChatID
  /\ ChatSend(v, MsgBody(m), "ok", "reply", reply, "ok")

\* lines 128-153 of a send that finds its chatID and a cache hit
SendBegin(r, v, m) ==
  /\ flight[r].pc = "idle"
  /\ nextToken <= MaxTokens
  /\ session[v] # NoChatID
  /\ \E f \in {Fetch(cache, session[v], "ok")} :
       /\ ~FalsyBytes(f)
       /\ \E d \in {loads(f.bytes)} :
            /\ d.ok
            /\ Len(d.h) + 2 <= MaxTurns
            /\ flight' = [flight EXCEPT ![r] =
                            [pc |-> "sending", v |-> v, sessID |-> session[v],
                             query |-> m, base |-> d.h, created |-> nextToken,
                             reply |-> <<>>]]
  /\ nextToken' = nextToken + 1
  /\ cookieLife' = make_session_permanent(cookieLife, v)
  /\ last' = Quiet("begin")
  /\ UNCHANGED <<session, cache, seen, prevList, conv, bound, conn,
                 limiterVars>>

\* lines 155-159 of that send, and the teardown of its request
SendEnd(r, reply) ==
  /\ flight[r].pc = "sending"
  /\ \E fl \in {flight[r]} :
     \E o \in {converse(fl.sessID, cache,
                        resume_chat(fl.sessID,
                                    create_chat(fl.created, fl.base)),
                        fl.query, "reply", reply, "ok",
                        <<"get", "create_chat">>)} :
     \E sess2 \in {[session EXCEPT ![fl.v] = o.chatID]} :
        /\ session' = sess2
        /\ cache' = o.cache
        /\ seen' = seen \cup Seen(sess2, o.cache)
        /\ last' = Step("send", fl.v, MsgBody(fl.query), "ok", "reply", "ok",
                        o, fl.created)
        /\ prevList' = [prevList EXCEPT ![fl.v] = NoPrev]
        /\ conv' = [conv EXCEPT ![fl.v] = NoConv]
        /\ bound' = Bound(sess2)
        /\ conn' = teardown_redis(conn)
        /\ flight' = [flight EXCEPT ![r] =
                        [fl EXCEPT !.pc = "done", !.reply = reply]]
  /\ UNCHANGED <<nextToken, cookieLife, limiterVars>>

ConcNext ==
  \/ \E v \in Solo, m \in Messages, reply \in Replies : Opening(v, m, reply)
  \/ \E r \in Reqs, v \in Solo, m \in Messages : SendBegin(r, v, m)
  \/ \E r \in Reqs, reply \in Replies : SendEnd(r, reply)

SpecConc == Init /\ [][ConcNext]_vars


\* ------------------------------------------------ two-visitor specification
\* two browsers, each with its own cookie, take turns; each sends a message
\* of its own so that a turn shows who sent it
MsgOf == [v \in Visitors |-> IF v = "v1" THEN "hi" ELSE "and then?"]

DuoNext ==
  \/ \E v \in Visitors, c \in ChatOutcomes, setMode \in SetModes :
        ChatSend(v, MsgBody(MsgOf[v]), "ok", c.mode, c.reply, setMode)
  \/ \E v \in Visitors : ChatList(v, "ok")
  \/ \E v \in Visitors, u \in Urls, reply \in Replies :
        Summarize(v, UrlBody(u), "reply", reply)
  \/ \E d \in Durations : Tick(d)

SpecDuo == Init /\ [][DuoNext]_vars


\* ------------------------------------------------------ fair specification
\* a well-formed send that finds the cache and the chat backend healthy
SendHealthy(v) ==
  \E m \in Messages, r \in Replies :
     ChatSend(v, MsgBody(m), "ok", "reply", r, "ok")

\* the cache and the chat backend healthy: well-formed sends, lists, time
LiveNext ==
  \/ \E v \in Solo : SendHealthy(v)
  \/ \E v \in Solo : ChatList(v, "ok")
  \/ \E d \in Durations : Tick(d)

\* time passes, and the visitor keeps sending
LiveSpec ==
  /\ Init /\ [][LiveNext]_vars
  /\ WF_vars(\E d \in Durations : Tick(d))
  /\ \A v \in Solo : WF_vars(SendHealthy(v))

\* ----------------------------------------------------------------- helpers
\* the step just taken is a request of v to the endpoint op
Did(op, v) == last'.op = op /\ last'.v = v

\* a send whose body carries a non-empty message
WellFormed(s) == ~FalsyJson(s.rjson) /\ ~FalsyStr(JsonGet(s.rjson, "message"))

\* a send that returned the model's reply
Replied(s) == s.op = "send" /\ s.exc = "none" /\ s.resp # ExpiredResp

\* an entry that is a cache hit: present and not empty
Hit(e) == e.present /\ e.val # <<>>

\* --------------------------------------------------------------------- C1
\* C1 as stated: every well-formed send from a session without chatID binds
\* a new, never seen token and leaves a cache entry under it.
C1_EverySendBinds ==
  [][\A v \in Visitors :
       (Did("send", v) /\ WellFormed(last') /\ session[v] = NoChatID)
       => /\ session'[v] # NoChatID
          /\ session'[v] \notin seen
          /\ cache'[session'[v]].present]_vars

\* C1 amended: a send from a session without chatID that returns the model's
\* reply binds the token create_chat() just returned, a token never bound to
\* a session and never used as a cache key before, and the cache then holds
\* the entry for it.
C1_FreshToken ==
  [][\A v \in Visitors :
       (Did("send", v) /\ Replied(last') /\ session[v] = NoChatID)
       => /\ session'[v] # NoChatID
          /\ session'[v] = last'.created
          /\ session'[v] \notin seen
          /\ \A w \in Visitors : session[w] # session'[v]
          /\ ~cache[session'[v]].present
          /\ cache'[session'[v]].present
          /\ Written(cache', cache) = {session'[v]}]_vars

\* a second conversation of a visitor was started under a new token
C1_Witness ==
  /\ Replied(last)
  /\ last.calls = <<"create_chat", "send_message", "setex">>
  /\ session[last.v] = last.created
  /\ cache[last.created].present
  /\ seen \ {last.created} # {}

\* --------------------------------------------------------------------- C2
\* C2: a well-formed send in a session whose chatID has no cache entry, the
\* cache answering the fetch, returns exactly the "session expired" message,
\* calls neither create_chat nor send_message, mints no token, writes no
\* cache entry and leaves the session's chatID as it was.
C2_Expired ==
  [][\A v \in Visitors :
       (/\ Did("send", v) /\ WellFormed(last')
        /\ session[v] # NoChatID /\ ~cache[session[v]].present
        /\ last'.get # "fail")
       => /\ last'.resp = ExpiredResp
          /\ last'.calls = <<"get">>
          /\ last'.created = 0
          /\ nextToken' = nextToken
          /\ cache' = cache
          /\ session'[v] = session[v]]_vars

C2_Witness ==
  /\ last.op = "send" /\ last.resp = ExpiredResp
  /\ session[last.v] # NoChatID
  /\ ~cache[session[last.v]].present

\* --------------------------------------------------------------------- C3
\* C3: after a "session expired" answer, the visitor who keeps sending with
\* the cache and the chat backend healthy eventually gets a model reply
\* (as long as the chat backend has tokens left to mint).
C3_StartOver ==
  \A v \in Solo :
    (last.op = "send" /\ last.v = v /\ last.resp = ExpiredResp
       /\ nextToken <= MaxTokens)
    ~> ((Replied(last) /\ last.v = v) \/ nextToken > MaxTokens)

\* --------------------------------------------------------------------- C4
\* C4: a send that finds a chatID and a cache hit and returns a reply keeps
\* the session's chatID, does not use the token create_chat(history)
\* returned, and overwrites the entry under exactly that chatID (new value,
\* expiry reset) and no other key.
C4_StableToken ==
  [][\A v \in Visitors :
       (Did("send", v) /\ Replied(last') /\ session[v] # NoChatID)
       => /\ session'[v] = session[v]
          /\ last'.created # 0
          /\ last'.created # session'[v]
          /\ ~cache'[last'.created].present
          /\ Written(cache', cache) = {session[v]}
          /\ cache'[session[v]].val # cache[session[v]].val
          /\ cache'[session[v]].ttl = HOUR_TIMEDELTA]_vars

C4_Witness ==
  /\ Replied(last)
  /\ last.calls = <<"get", "create_chat", "send_message", "setex">>
  /\ session[last.v] # NoChatID
  /\ session[last.v] # last.created
  /\ Len(loads(cache[session[last.v]].val).h) = 4

\* --------------------------------------------------------------------- C5
\* C5: a send that returns a reply leaves the conversation's entry with the
\* full one-hour expiry; a list, and a send that does not get to its write,
\* leave every entry's value and expiry as they were.
C5_TtlRefresh ==
  [][\A v \in Visitors :
       /\ (Did("send", v) /\ Replied(last'))
            => cache'[session'[v]] =
                 Entry(cache'[session'[v]].val, HOUR_TIMEDELTA)
       /\ Did("list", v) => cache' = cache
       /\ (Did("send", v) /\ ~Called(last'.calls, "setex")) => cache' = cache]_vars

\* the entry of a resumed conversation was rewritten with the full expiry
\* while an older entry has run down
C5_Witness ==
  /\ Replied(last)
  /\ Called(last.calls, "get")
  /\ cache[session[last.v]].ttl = HOUR_TIMEDELTA
  /\ Len(loads(cache[session[last.v]].val).h) = 4


\* --------------------------------------------------------------------- C6
\* C6: a send whose message the chat backend declines
\* (StopCandidateException) answers "I cannot answer that." with status 200
\* and leaves every cache entry (value and expiry) and the session's chatID
\* as they were.
C6_DeclineIsolated ==
  [][\A v \in Visitors :
       (Did("send", v) /\ last'.chat = "declined")
       => /\ last'.exc = "StopCandidateException"
          /\ last'.resp = DeclinedResp
          /\ last'.resp.status = 200
          /\ cache' = cache
          /\ session' = session]_vars

\* a message of a running conversation was declined
C6_Witness ==
  /\ last.op = "send" /\ last.chat = "declined"
  /\ last.resp = DeclinedResp
  /\ last.calls = <<"get", "create_chat", "send_message">>
  /\ Hit(cache[session[last.v]])

\* --------------------------------------------------------------------- C7
\* C7: a send without a body is answered with status 415 and a send whose
\* "message" is missing or empty with status 400, neither calling the chat
\* backend or the cache.
C7_ClientErrors ==
  last.op = "send" =>
    /\ last.rjson.isNone => (last.resp.status = 415 /\ last.calls = <<>>)
    /\ (~last.rjson.isNone /\ FalsyStr(JsonGet(last.rjson, "message")))
         => (last.resp.status = 400 /\ last.calls = <<>>)

\* --------------------------------------------------------------------- C8
\* the list raised because the cache did not answer the fetch
CacheDown(r) == r = UnhandledResp("ConnectionError")

\* C8 as stated: two lists of a visitor with no send of that visitor in
\* between (the cache answering both fetches, no other writer) return the
\* same output, whatever time passes between them, and change neither the
\* cache nor the session.
C8_ListTwice ==
  [][\A v \in Visitors :
       (/\ Did("list", v) /\ prevList[v].has
        /\ ~CacheDown(prevList[v].out) /\ ~CacheDown(last'.resp))
       => /\ last'.resp = prevList[v].out
          /\ cache' = cache
          /\ session' = session]_vars

\* C8 amended: two lists of a visitor with no send in between, the cache
\* answering both fetches and neither the cache entry nor the session cookie
\* expiring between the two calls, return the same output; no list changes
\* the cache or the session's chatID.
C8_ListTwiceStable ==
  [][\A v \in Visitors :
       Did("list", v)
       => /\ cache' = cache
          /\ session' = session
          /\ (/\ prevList[v].has /\ prevList[v].stable
              /\ ~CacheDown(prevList[v].out) /\ ~CacheDown(last'.resp))
             => last'.resp = prevList[v].out]_vars

\* a second list of a running conversation, some time after its last write
C8_Witness ==
  /\ last.op = "list"
  /\ prevList[last.v].twice
  /\ last.resp.items # <<>>
  /\ cache[session[last.v]].ttl < HOUR_TIMEDELTA

\* --------------------------------------------------------------------- C9
\* C9: no exception leaves the handler of a conversational endpoint.
C9_AllCaught ==
  last.op \in {"send", "list", "summarize"} => last.resp.key # "exception"

\* -------------------------------------------------------------------- C10
\* C10: a well-formed send that finds a chatID and a cache hit whose bytes
\* are no pickled history (they are not what dumps wrote) answers the generic failure message, calls
\* neither create_chat nor send_message, and leaves the cache and the
\* session as they were.
C10_MalformedHistory ==
  [][\A v \in Visitors :
       (/\ Did("send", v) /\ WellFormed(last')
        /\ session[v] # NoChatID /\ last'.get # "fail"
        /\ Hit(cache[session[v]]) /\ cache[session[v]].val \in Garbage)
       => /\ last'.resp = OutOfServiceResp
          /\ last'.calls = <<"get">>
          /\ last'.created = 0
          /\ cache' = cache
          /\ session' = session]_vars

C10_Witness ==
  /\ last.op = "send" /\ last.exc = "UnpicklingError"
  /\ last.resp = OutOfServiceResp
  /\ session[last.v] # NoChatID
  /\ Hit(cache[session[last.v]])
  /\ cache[session[last.v]].val \in Garbage

\* -------------------------------------------------------------------- C11
\* C11: while a conversation runs (k sends of the session were answered and
\* its entry neither expired nor was replaced in between), the session still
\* holds the token of the first of them and a list answers exactly the 2k
\* turns of these exchanges, oldest first, roles alternating user, model,
\* each model turn showing its parts joined by spaces; a list of a session
\* without a chatID, or whose entry is absent, answers the empty sequence.
C11_ListIsTranscript ==
  [][\A v \in Visitors :
       (Did("list", v) /\ last'.get # "fail")
       => /\ conv[v].k > 0
             => /\ session[v] = conv[v].id
                /\ last'.resp = ListResp(conv[v].turns)
                /\ Len(last'.resp.items) = 2 * conv[v].k
                /\ \A i \in 1..Len(last'.resp.items) :
                      last'.resp.items[i].role =
                        (IF i % 2 = 1 THEN "user" ELSE "model")
          /\ (session[v] = NoChatID \/ ~cache[session[v]].present)
             => last'.resp = ListResp(<<>>)]_vars

C11_Witness ==
  /\ last.op = "list" /\ last.get = "ok"
  /\ conv[last.v].k = 2
  /\ Len(last.resp.items) = 4
  /\ last.resp.items[4].content = <<"a", " ", "b">>
  /\ last.resp.items[3].content # last.resp.items[1].content

\* -------------------------------------------------------------------- C12
\* C12: a summarize changes neither the chatID of any session nor any cache
\* entry (value and TTL alike) and calls neither get nor setex, whatever the
\* session and the cache hold; when its body carries a url it creates one
\* conversation under a token never used before and sends exactly one
\* message to it, and that token is kept nowhere.
C12_SummarizeStateless ==
  [][\A v \in Visitors :
       Did("summarize", v)
       => /\ session' = session
          /\ cache' = cache
          /\ ~Called(last'.calls, "get") /\ ~Called(last'.calls, "setex")
          /\ (~FalsyJson(last'.rjson) /\ ~FalsyStr(JsonGet(last'.rjson, "url")))
             => /\ last'.calls = <<"create_chat", "send_message">>
                /\ last'.created \notin seen
                /\ last'.created \notin seen'
                /\ \A w \in Visitors : session'[w] # last'.created]_vars

C12_Witness ==
  /\ last.op = "summarize" /\ last.resp.key = "summary"
  /\ session[last.v] # NoChatID
  /\ session[last.v] # last.created
  /\ Hit(cache[session[last.v]])
  /\ ~cache[last.created].present

\* -------------------------------------------------------------------- C13
\* C13: a send that arrives while the caller's 4-second window is open is
\* answered 429 before the handler runs (no backend or cache call, session,
\* cache and token counter unchanged) with a retry-after value that is a
\* positive whole number of seconds, and only such a send is answered 429.
C13_RateLimit ==
  [][\A v \in Visitors :
       Did("send", v)
       => /\ LimitOpen(v) <=> last'.resp.status = 429
          /\ LimitOpen(v)
             => /\ last'.calls = <<>>
                /\ session' = session /\ cache' = cache
                /\ nextToken' = nextToken
                /\ last'.retry >= 1]_vars

\* -------------------------------------------------------------------- C14
\* C14: the history is persisted before the token is bound, so a send whose
\* cache write fails leaves the session as it was: it never binds a chatID
\* under which no cache entry was written.
C14_PersistBeforeBind ==
  [][\A v \in Visitors :
       (Did("send", v) /\ last'.set = "fail")
       => session' = session]_vars

\* -------------------------------------------------------------------- C15
\* C15: when two sends of the same chatID overlap, each write replaces the
\* entry with the history its own request loaded plus its own exchange,
\* whatever another request wrote in between: the entry is always exactly
\* the history of the write that happened last.
C15_LastWriteWins ==
  [][\A r \in Reqs :
       (flight[r].pc = "sending" /\ flight'[r].pc = "done")
       => cache'[flight[r].sessID] =
            Entry(dumps(flight[r].base
                        \o <<Turn("user", <<flight[r].query>>),
                             Turn("model", flight'[r].reply)>>),
                  HOUR_TIMEDELTA)]_vars

\* both sends read the same stored history before either wrote, and the
\* entry they leave holds the message of only one of them
C15_Witness ==
  /\ flight["r1"].pc = "done" /\ flight["r2"].pc = "done"
  /\ flight["r1"].sessID = flight["r2"].sessID
  /\ flight["r1"].base = flight["r2"].base
  /\ flight["r1"].query # flight["r2"].query
  /\ LET h == loads(cache[flight["r1"].sessID].val).h IN
       /\ Len(h) = Len(flight["r1"].base) + 2
       /\ h[Len(h) - 1] = Turn("user", <<flight["r2"].query>>)
       /\ \A i \in 1..Len(h) : h[i].parts # <<flight["r1"].query>>

\* -------------------------------------------------------------------- C16
\* C16: when the cache get raises a text-decoding error, the bytes the error
\* carries are the stored value: a send answers the expired message, and a
\* list the empty sequence, exactly when these bytes are absent or empty;
\* otherwise the request goes on as on a hit: bytes that are a pickled
\* history are resumed (the send extends that history by its exchange, the
\* list renders every turn of it), other bytes fail in pickle.loads.
C16_DecodeFallback ==
  [][\A v \in Visitors :
       (last'.v = v /\ last'.op \in {"send", "list"}
        /\ last'.get = "decode_error")
       => LET e == cache[session[v]] IN
          /\ last'.op = "send"
             => /\ last'.resp = ExpiredResp <=> ~Hit(e)
                /\ (Hit(e) /\ loads(e.val).ok)
                   => /\ Called(last'.calls, "create_chat")
                      /\ Called(last'.calls, "send_message")
                /\ Replied(last')
                   => LET h == loads(cache'[session[v]].val).h IN
                      /\ Len(h) = Len(loads(e.val).h) + 2
                      /\ SubSeq(h, 1, Len(h) - 2) = loads(e.val).h
          /\ last'.op = "list"
             => /\ last'.resp = ListResp(<<>>) <=> ~Hit(e)
                /\ (Hit(e) /\ loads(e.val).ok)
                   => /\ last'.resp.key = "list"
                      /\ Len(last'.resp.items) = Len(loads(e.val).h)
                      /\ Len(last'.resp.items) > 0
          /\ (Hit(e) /\ ~loads(e.val).ok) => last'.exc = "UnpicklingError"]_vars

C16_Witness ==
  /\ last.op = "send" /\ last.get = "decode_error"
  /\ Replied(last)
  /\ Len(loads(cache[session[last.v]].val).h) = 4

\* -------------------------------------------------------------------- C17
\* C17: no request calls the cache over a connection that the teardown of an
\* earlier request has already released.
C17_ConnPerRequest ==
  (/\ last.op \in {"send", "list", "summarize"}
   /\ (Called(last.calls, "get") \/ Called(last.calls, "setex")))
  => last.conn = "open"

\* -------------------------------------------------------------------- C18
\* C18: a send writes the cache exactly when it returns the model's reply:
\* one that answers the expired message, "I cannot answer that." or the
\* out-of-service message leaves every entry, value and TTL, as it was, and
\* one that returns a reply has written one entry and no other, under the
\* chatID its session now holds.
C18_WriteIffReply ==
  [][\A v \in Visitors :
       Did("send", v)
       => /\ last'.resp \in {ExpiredResp, DeclinedResp, OutOfServiceResp}
             => cache' = cache
          /\ Replied(last') <=> cache' # cache
          /\ Replied(last')
             => /\ session'[v] # NoChatID
                /\ Written(cache', cache) = {session'[v]}
                /\ cache'[session'[v]].present
                /\ last'.calls[Len(last'.calls)] = "setex"
                /\ Cardinality({i \in 1..Len(last'.calls) :
                                  last'.calls[i] = "setex"}) = 1]_vars

C18_Witness ==
  /\ last.op = "send" /\ last.resp = OutOfServiceResp
  /\ last.set = "fail"
  /\ session[last.v] # NoChatID
  /\ Hit(cache[session[last.v]])
  /\ Len(loads(cache[session[last.v]].val).h) = 2

\* -------------------------------------------------------------------- C19
\* C19: with create_chat minting a fresh token at every call, after any
\* interleaving of sends, lists and summarizes of several visitors no two
\* sessions hold the same chatID, every cache key is a chatID that was bound
\* into exactly one session, and a list never shows a visitor a user turn
\* that another visitor sent.
C19_Isolation ==
  [][/\ \A v, w \in Visitors :
          (v # w /\ session'[v] # NoChatID) => session'[v] # session'[w]
     /\ \A t \in Tokens :
          cache'[t].present => Cardinality(bound'[t]) = 1
     /\ \A v \in Visitors :
          Did("list", v)
          => \A i \in 1..Len(last'.resp.items) :
               last'.resp.items[i].role = "user"
               => last'.resp.items[i].content = <<MsgOf[v]>>]_vars

C19_Witness ==
  /\ last.op = "list" /\ last.v = "v2"
  /\ Len(last.resp.items) >= 2
  /\ session["v1"] # NoChatID /\ session["v2"] # NoChatID
  /\ session["v1"] # session["v2"]
  /\ Hit(cache[session["v1"]])
  /\ Len(loads(cache[session["v1"]].val).h) >= 2

\* -------------------------------------------------------------------- C20
\* C20: no handler removes or replaces a chatID: a send, list or summarize
\* of a visitor whose session holds a chatID leaves it in place, also when
\* its cache entry has expired; the only request that writes a chatID is a
\* send of a session without one, after send_message returned its reply,
\* and it writes the token its create_chat returned; no request touches
\* the session of another visitor.
C20_ChatIDKept ==
  [][\A v \in Visitors :
       (last'.v = v /\ last'.op \in {"send", "list", "summarize"})
       => /\ session[v] # NoChatID => session'[v] = session[v]
          /\ session'[v] # session[v]
             => /\ last'.op = "send"
                /\ last'.chat = "reply"
                /\ last'.calls[Len(last'.calls) - 1] = "send_message"
                /\ session'[v] = last'.created
          /\ \A w \in Visitors \ {v} : session'[w] = session[w]]_vars

C20_Witness ==
  /\ last.op = "list" /\ last.get = "ok"
  /\ last.resp = ListResp(<<>>)
  /\ session[last.v] # NoChatID
  /\ session[last.v] \in seen
  /\ ~cache[session[last.v]].present
  /\ cookieLife[last.v] = HOUR_TIMEDELTA

=============================================================================
